---- MODULE Spec2Model ----
(***************************************************************************)
(* Timetable editor: the schedule store (ScheduleContext.tsx), the drag-end *)
(* commit (ScheduleDndProvider.tsx) and the catalog fetch cache             *)
(* (SearchDialog.tsx), as state machines.                                   *)
(*                                                                          *)
(* Every store writer hands React an updater prev => next.  All updaters    *)
(* build new objects and arrays (spread, filter, map) and never assign to   *)
(* a field of an existing one, so a table's entry list is modelled as a     *)
(* sequence value and the mapping as a function value.  An updater that     *)
(* dereferences a missing table raises a TypeError and publishes nothing.   *)
(***************************************************************************)
EXTENDS Integers, Sequences, FiniteSets, TLC

VARIABLES
    schedulesMap,   \* useState value of ScheduleProvider: table id -> entry list
    thrown,         \* what the most recent store updater raised ("none" if it returned)
    now,            \* the reading of Date.now()
    lastOp,         \* the store write action invoked most recently
    drag,           \* the path the most recent handleDragEnd took, and its newDayIndex
    lectureApiCache,\* window.lectureApiCache: cache key -> entry, or NoEntry
    requests,       \* the axios.get calls issued, each with its url and its promise's state
    pc,             \* each fetchAllLectures invocation: where it stands
    got,            \* each fetchAllLectures invocation: the promises its calls returned
    published,      \* which context values the most recent store write replaced
    frame,          \* the drag in progress: its rects and the offset the modifier emitted
    responses,      \* what the server answers for each url
    lectures,       \* useState value of each mounted SearchDialog: the catalog
    page,           \* useState value of each mounted SearchDialog: the page
    searchOptions,  \* useState value of each mounted SearchDialog: the query
    dialog,         \* each mounted SearchDialog: its props, its observer, its last handler
    tableProvider   \* a TableScheduleProvider: its state, its context value, its parent

storeVars == <<schedulesMap, thrown, now, lastOp, published>>

dndVars == <<drag, frame>>

cacheVars == <<lectureApiCache, requests, pc, got>>

searchVars == <<responses, lectures, page, searchOptions, dialog>>

tableVars == <<tableProvider>>

vars == <<schedulesMap, thrown, now, lastOp, published, drag, frame,
          lectureApiCache, requests, pc, got,
          responses, lectures, page, searchOptions, dialog, tableProvider>>

----------------------------------------------------------------------------
(* Bounds of the model *)

\* most tables the mapping may hold before duplicateTable is no longer tried
MaxTables == 2

\* most entries the tables may hold together before an entry is no longer added
MaxEntries == 2

\* largest time slot an entry is moved to
MaxSlot == 6

\* number of fetchAllLectures invocations (dialog mounts)
MaxCallers == 3

Callers == 1 .. MaxCallers

----------------------------------------------------------------------------
(* constants.ts *)

\* the six weekday tokens, Monday to Saturday, in grid column order
DAY_LABELS == <<"Mon", "Tue", "Wed", "Thu", "Fri", "Sat">>

CellSizeWIDTH == 80

CellSizeHEIGHT == 30

----------------------------------------------------------------------------
(* Inputs *)

\* two catalog sessions: Monday slots 2-4 and Monday slots 5-6
e1 == [day |-> "Mon", range |-> <<2, 3, 4>>, room |-> "A101", lecture |-> "L1"]

e2 == [day |-> "Mon", range |-> <<5, 6>>, room |-> "B202", lecture |-> "L2"]

ScheduleInputs == {<<>>, <<e1>>, <<e2>>, <<e1, e2>>}

DayInputs == {"Mon", "Tue"}

OffsetInputs == {-2, 0, 2}

TimeInputs == {3, 5}

\* the ids of the seed tables, a table id the mapping never holds, and the
\* ids duplicateTable can generate
SeedId == "schedule-1"

UnknownId == ""

\* the readings of Date.now(), in milliseconds
ClockReadings == {3, 4}

\* scheduleIndex is zero-based; MaxEntries is past the end of every table
IndexInputs == 0 .. MaxEntries

----------------------------------------------------------------------------
(* ScheduleContext.tsx: the updaters, as functions of prev *)

\* an updater's outcome: the mapping React holds afterwards and the error raised
Returned(next) == [map |-> next, thrown |-> "none"]

Raised(prev) == [map |-> prev, thrown |-> "TypeError"]

\* { ...prev, [tableId]: list }
SpreadWith(prev, tableId, list) ==
    [t \in DOMAIN prev \cup {tableId} |-> IF t = tableId THEN list ELSE prev[t]]

\* range.includes(time)
includes(range, time) == \E i \in 1 .. Len(range) : range[i] = time

\* filterSchedules with the two tests joined by && instead of ||: an entry is
\* kept only when both its day differs and its range misses the time
RECURSIVE filterSchedulesBothDiffer(_, _, _)
filterSchedulesBothDiffer(schedules, day, time) ==
    IF schedules = <<>> THEN <<>>
    ELSE LET schedule == Head(schedules)
             rest == filterSchedulesBothDiffer(Tail(schedules), day, time)
         IN IF schedule.day # day /\ ~includes(schedule.range, time)
            THEN <<schedule>> \o rest
            ELSE rest

\* Array.prototype.filter with the predicate of removeSchedule, element by element
RECURSIVE filterSchedules(_, _, _)
filterSchedules(schedules, day, time) ==
    IF schedules = <<>> THEN <<>>
    ELSE LET schedule == Head(schedules)
             rest == filterSchedules(Tail(schedules), day, time)
         IN IF schedule.day # day \/ ~includes(schedule.range, time)
            THEN <<schedule>> \o rest
            ELSE rest

\* shiftRange that keeps a moved slot from falling below the first slot
shiftRangeClamped(range, timeOffset) ==
    [j \in 1 .. Len(range) |->
        IF range[j] + timeOffset < 1 THEN 1 ELSE range[j] + timeOffset]

\* range.map(time => time + timeOffset)
shiftRange(range, timeOffset) == [j \in 1 .. Len(range) |-> range[j] + timeOffset]

\* moveSchedule that takes scheduleIndex as one-based
moveScheduleOneBased(schedule, index, scheduleIndex, newDay, timeOffset) ==
    IF index + 1 # scheduleIndex THEN schedule
    ELSE [schedule EXCEPT !.day = newDay,
                          !.range = [j \in 1 .. Len(schedule.range) |->
                                        schedule.range[j] + timeOffset]]

\* the map callback of updateSchedulePosition; index is zero-based
moveSchedule(schedule, index, scheduleIndex, newDay, timeOffset) ==
    IF index # scheduleIndex THEN schedule
    ELSE [schedule EXCEPT !.day = newDay,
                          !.range = shiftRange(schedule.range, timeOffset)]

\* addSchedule that reads a missing table as empty: [...(prev[tableId] ?? []), ...schedules]
addScheduleDefaulting(prev, tableId, schedules) ==
    [map |-> [t \in DOMAIN prev \cup {tableId} |->
                IF t = tableId
                THEN (IF tableId \in DOMAIN prev THEN prev[tableId] ELSE <<>>) \o schedules
                ELSE prev[t]],
     thrown |-> "none"]

addSchedule(prev, tableId, schedules) ==
    IF tableId \notin DOMAIN prev THEN Raised(prev)
    ELSE Returned(SpreadWith(prev, tableId, prev[tableId] \o schedules))

removeSchedule(prev, tableId, day, time) ==
    IF tableId \notin DOMAIN prev THEN Raised(prev)
    ELSE Returned(SpreadWith(prev, tableId, filterSchedules(prev[tableId], day, time)))

\* `schedule-${Date.now()}`
newTableId(dateNow) == "schedule-" \o ToString(dateNow)

duplicateTable(prev, tableId, dateNow) ==
    IF tableId \notin DOMAIN prev THEN Raised(prev)
    ELSE Returned(SpreadWith(prev, newTableId(dateNow), prev[tableId]))

\* const { [tableId]: removed, ...rest } = prev; return rest
removeTable(prev, tableId) ==
    Returned([t \in DOMAIN prev \ {tableId} |-> prev[t]])

\* updateSchedulePosition that moves the entry at scheduleIndex in every table
updateSchedulePositionEveryTable(prev, tableId, scheduleIndex, newDay, timeOffset) ==
    IF tableId \notin DOMAIN prev THEN [map |-> prev, thrown |-> "TypeError"]
    ELSE [map |-> [t \in DOMAIN prev |->
                     [i \in 1 .. Len(prev[t]) |->
                        IF i - 1 # scheduleIndex THEN prev[t][i]
                        ELSE [prev[t][i] EXCEPT
                                !.day = newDay,
                                !.range = [j \in 1 .. Len(prev[t][i].range) |->
                                              prev[t][i].range[j] + timeOffset]]]],
          thrown |-> "none"]

updateSchedulePosition(prev, tableId, scheduleIndex, newDay, timeOffset) ==
    IF tableId \notin DOMAIN prev THEN Raised(prev)
    ELSE Returned(SpreadWith(prev, tableId,
            [i \in 1 .. Len(prev[tableId]) |->
                moveSchedule(prev[tableId][i], i - 1, scheduleIndex, newDay, timeOffset)]))

----------------------------------------------------------------------------
(* The store as a state machine *)

\* What is a new reference when ScheduleProvider renders after a write.  Every
\* updater builds a new object, so the state is a new reference whenever the
\* updater returned; the setter useState returns is the same function on every
\* render.
changedOnRender(outcome) == IF outcome.thrown = "none" THEN {"schedulesMap"} ELSE {}

\* the dependency list of readValue
depsOfReadValue == {"schedulesMap"}

\* writeValue whose dependency list names the state as well
depsOfWriteValueWithState == {"setSchedulesMap", "schedulesMap"}

\* the dependency list of writeValue
depsOfWriteValue == {"setSchedulesMap"}

\* useMemo(factory, deps) makes a new value when a dependency is a new reference
useMemo(deps, changed) == deps \cap changed # {}

\* the context values a render replaces: Provider value={readValue}, value={writeValue}
render(outcome) ==
    [read |-> useMemo(depsOfReadValue, changedOnRender(outcome)),
     write |-> useMemo(depsOfWriteValue, changedOnRender(outcome))]

\* setSchedulesMap(updater): the outcome of the updater becomes the state
setSchedulesMap(outcome) ==
    /\ schedulesMap' = outcome.map
    /\ thrown' = outcome.thrown
    /\ published' = render(outcome)

RECURSIVE TotalEntries(_)
TotalEntries(map) ==
    IF DOMAIN map = {} THEN 0
    ELSE LET t == CHOOSE t \in DOMAIN map : TRUE
         IN Len(map[t]) + TotalEntries([u \in DOMAIN map \ {t} |-> map[u]])

SlotsWithin(map) ==
    \A t \in DOMAIN map : \A i \in 1 .. Len(map[t]) :
        \A j \in 1 .. Len(map[t][i].range) : map[t][i].range[j] \in 1 .. MaxSlot

WithinBounds(map) ==
    /\ Cardinality(DOMAIN map) <= MaxTables
    /\ TotalEntries(map) <= MaxEntries
    /\ SlotsWithin(map)

\* the first render replaces no context value
NothingPublished == [read |-> FALSE, write |-> FALSE]

\* a server with empty catalogs
NoResponses == [url \in {"/schedules-majors.json", "/schedules-liberal-arts.json"} |-> <<>>]

SeedLists == {<<e1>>, <<e1, e2>>}

\* no drag has ended
NoDrag == [path |-> "none", newDayIndex |-> 0]

\* a rect dnd-kit has not measured
NoRect == [top |-> 0, left |-> 0, bottom |-> 0, right |-> 0, measured |-> FALSE]

\* no drag is in progress
NoFrame == [dragging |-> FALSE, tableId |-> "", index |-> 0,
            containerNodeRect |-> NoRect, draggingNodeRect |-> NoRect,
            raw |-> [x |-> 0, y |-> 0], transform |-> [x |-> 0, y |-> 0]]

InitDnd ==
    /\ drag = NoDrag
    /\ frame = NoFrame

\* SearchDialog's useState initial values; credits is absent, which is written <<>>
InitialSearchOptions ==
    [query |-> <<>>, grades |-> <<>>, days |-> <<>>, times |-> <<>>, majors |-> <<>>,
     credits |-> <<>>]

\* ScheduleTables renders the dialog closed, with no day and no time (written 0);
\* the refs are null then, so the effect installs no observer
ClosedDialog == [isOpen |-> FALSE, day |-> "undefined", time |-> 0,
                 observing |-> FALSE, lastPage |-> 0, op |-> "none"]

\* a TableScheduleProvider mounted with initialSchedules: the state, the
\* schedules its context value closes over, the list onSchedulesChange got
\* last (called tells whether it was called), and, for the properties, the
\* list that reflects every write made through the value since it was made
MountedTable(initialSchedules) ==
    [schedules |-> initialSchedules,
     value |-> [schedules |-> initialSchedules],
     notified |-> <<>>, called |-> FALSE,
     writes |-> 0, reflected |-> initialSchedules]

InitTable == tableProvider = MountedTable(<<e1>>)

InitDialogs ==
    /\ lectures = [c \in Callers |-> <<>>]
    /\ page = [c \in Callers |-> 1]
    /\ searchOptions = [c \in Callers |-> InitialSearchOptions]
    /\ dialog = [c \in Callers |-> ClosedDialog]

CacheKeys == {"schedules-majors", "schedules-liberal-arts"}

\* cache.get(cacheKey) of a key never set
NoEntry == [promise |-> 0, data |-> "undefined"]

InitCache ==
    /\ lectureApiCache = [k \in CacheKeys |-> NoEntry]
    /\ requests = <<>>
    /\ pc = [c \in Callers |-> "idle"]
    /\ got = [c \in Callers |-> <<>>]

InitStore ==
    /\ \E list \in SeedLists : schedulesMap = [t \in {SeedId} |-> list]
    /\ thrown = "none"
    /\ now = 3
    /\ lastOp = "none"
    /\ published = NothingPublished
    /\ InitDnd
    /\ InitCache
    /\ responses = NoResponses
    /\ InitDialogs
    /\ InitTable

\* SearchDialog's add button; its tableId is '' while no table is selected
AddSchedule(tableId, schedules) ==
    LET outcome == addSchedule(schedulesMap, tableId, schedules)
    IN /\ WithinBounds(outcome.map)
       /\ setSchedulesMap(outcome)
       /\ lastOp' = "addSchedule"
       /\ UNCHANGED <<now, dndVars, cacheVars, searchVars, tableVars>>

RemoveSchedule(tableId, day, time) ==
    /\ setSchedulesMap(removeSchedule(schedulesMap, tableId, day, time))
    /\ lastOp' = "removeSchedule"
    /\ UNCHANGED <<now, dndVars, cacheVars, searchVars, tableVars>>

DuplicateTable(tableId) ==
    LET outcome == duplicateTable(schedulesMap, tableId, now)
    IN /\ WithinBounds(outcome.map)
       /\ setSchedulesMap(outcome)
       /\ lastOp' = "duplicateTable"
       /\ UNCHANGED <<now, dndVars, cacheVars, searchVars, tableVars>>

RemoveTable(tableId) ==
    /\ setSchedulesMap(removeTable(schedulesMap, tableId))
    /\ lastOp' = "removeTable"
    /\ UNCHANGED <<now, dndVars, cacheVars, searchVars, tableVars>>

UpdateSchedulePosition(tableId, scheduleIndex, newDay, timeOffset) ==
    LET outcome == updateSchedulePosition(schedulesMap, tableId, scheduleIndex,
                                          newDay, timeOffset)
    IN /\ WithinBounds(outcome.map)
       /\ setSchedulesMap(outcome)
       /\ lastOp' = "updateSchedulePosition"
       /\ UNCHANGED <<now, dndVars, cacheVars, searchVars, tableVars>>

\* ScheduleTables: the delete button is disabled while one table is left
disabledRemoveButton == Cardinality(DOMAIN schedulesMap) = 1

ClickRemove(targetId) ==
    /\ ~disabledRemoveButton
    /\ RemoveTable(targetId)

\* the clock advances
Tick ==
    /\ now + 1 \in ClockReadings
    /\ now' = now + 1
    /\ UNCHANGED <<schedulesMap, thrown, lastOp, published, dndVars, cacheVars, searchVars, tableVars>>

NextStore ==
    \/ \E tableId \in DOMAIN schedulesMap \cup {UnknownId}, schedules \in ScheduleInputs :
           AddSchedule(tableId, schedules)
    \/ \E tableId \in DOMAIN schedulesMap, day \in DayInputs, time \in TimeInputs :
           RemoveSchedule(tableId, day, time)
    \/ \E tableId \in DOMAIN schedulesMap : DuplicateTable(tableId)
    \/ \E tableId \in DOMAIN schedulesMap : RemoveTable(tableId)
    \/ \E targetId \in DOMAIN schedulesMap : ClickRemove(targetId)
    \/ \E tableId \in DOMAIN schedulesMap, scheduleIndex \in IndexInputs,
          newDay \in DayInputs, timeOffset \in OffsetInputs :
           UpdateSchedulePosition(tableId, scheduleIndex, newDay, timeOffset)
    \/ Tick

Spec == InitStore /\ [][NextStore]_vars

----------------------------------------------------------------------------
(* ScheduleDndProvider.tsx: handleDragEnd *)

\* DAY_LABELS.indexOf(day): zero-based, -1 for a day that is no label
indexOf(day) ==
    IF \E d \in 1 .. Len(DAY_LABELS) : DAY_LABELS[d] = day
    THEN (CHOOSE d \in 1 .. Len(DAY_LABELS) : DAY_LABELS[d] = day) - 1
    ELSE -1

\* Math.floor(pixels / size), size > 0
floorCells(pixels, size) == pixels \div size

\* DAY_LABELS[index], index zero-based
dayAt(index) ==
    IF index + 1 \in 1 .. Len(DAY_LABELS) THEN DAY_LABELS[index + 1] ELSE "undefined"

\* handleDragEnd whose range check lets newDayIndex = DAY_LABELS.length through
handleDragEndInclusive(prev, tableId, active, delta) ==
    LET newDayIndex == indexOf(active.day) + floorCells(delta.x, CellSizeWIDTH)
        outcome == updateSchedulePosition(prev, tableId, active.index, dayAt(newDayIndex),
                                          floorCells(delta.y, CellSizeHEIGHT))
    IN IF active.tableId # tableId
       THEN [path |-> "ignored", newDayIndex |-> 0, called |-> FALSE,
             map |-> prev, thrown |-> "none"]
       ELSE IF newDayIndex < 0 \/ newDayIndex > Len(DAY_LABELS)
       THEN [path |-> "discarded", newDayIndex |-> newDayIndex, called |-> FALSE,
             map |-> prev, thrown |-> "none"]
       ELSE [path |-> "committed", newDayIndex |-> newDayIndex, called |-> TRUE,
             map |-> outcome.map, thrown |-> outcome.thrown]

\* active is the dragged element: its id `${tableId}:${index}`, split, and the
\* day of its data; delta is the final offset in pixels.  The result tells the
\* path taken, whether updateSchedulePosition was called and what it published.
handleDragEnd(prev, tableId, active, delta) ==
    LET nowDayIndex == indexOf(active.day)
        moveDayIndex == floorCells(delta.x, CellSizeWIDTH)
        moveTimeIndex == floorCells(delta.y, CellSizeHEIGHT)
        newDayIndex == nowDayIndex + moveDayIndex
        outcome == updateSchedulePosition(prev, tableId, active.index, dayAt(newDayIndex),
                                          moveTimeIndex)
    IN IF active.tableId # tableId
       THEN [path |-> "ignored", newDayIndex |-> 0, called |-> FALSE,
             map |-> prev, thrown |-> "none"]
       ELSE IF newDayIndex < 0 \/ newDayIndex >= Len(DAY_LABELS)
       THEN [path |-> "discarded", newDayIndex |-> newDayIndex, called |-> FALSE,
             map |-> prev, thrown |-> "none"]
       ELSE [path |-> "committed", newDayIndex |-> newDayIndex, called |-> TRUE,
             map |-> outcome.map, thrown |-> outcome.thrown]

\* the final offsets of the drags tried, in pixels
DeltaXs == {-81, -80, -1, 0, 79, 80, 160}

DeltaYs == {-30, -1, 0, 29, 30}

\* the element rendered for entry index of table tableId (ScheduleTable)
Draggable(tableId, index) ==
    [tableId |-> tableId, index |-> index, day |-> schedulesMap[tableId][index + 1].day]

HandleDragEnd(tableId, active, delta) ==
    LET result == handleDragEnd(schedulesMap, tableId, active, delta)
    IN /\ SlotsWithin(result.map)
       /\ drag' = [path |-> result.path, newDayIndex |-> result.newDayIndex]
       /\ IF result.called
          THEN /\ setSchedulesMap([map |-> result.map, thrown |-> result.thrown])
               /\ lastOp' = "updateSchedulePosition"
          ELSE UNCHANGED <<schedulesMap, thrown, lastOp, published>>
       /\ UNCHANGED <<now, frame, cacheVars, searchVars, tableVars>>

\* two tables, each under its own ScheduleDndProvider
InitDragging ==
    /\ schedulesMap = [t \in {SeedId, "schedule-2"} |-> IF t = SeedId THEN <<e1>> ELSE <<e2>>]
    /\ thrown = "none"
    /\ now = 3
    /\ lastOp = "none"
    /\ published = NothingPublished
    /\ InitDnd
    /\ InitCache
    /\ responses = NoResponses
    /\ InitDialogs
    /\ InitTable

NextDnd ==
    \E tableId \in DOMAIN schedulesMap, dragged \in DOMAIN schedulesMap :
        \E index \in 0 .. (Len(schedulesMap[dragged]) - 1), x \in DeltaXs, y \in DeltaYs :
            HandleDragEnd(tableId, Draggable(dragged, index), [x |-> x, y |-> y])

SpecDnd == InitDragging /\ [][NextDnd]_vars

----------------------------------------------------------------------------
(* ScheduleDndProvider.tsx: createSnapModifier, and the grid of ScheduleTable.tsx *)

\* Math.round(pixels / size), size > 0: the nearest integer, a tie going up
roundCells(pixels, size) == (2 * pixels + size) \div (2 * size)

MathMin(a, b) == IF a <= b THEN a ELSE b

MathMax(a, b) == IF a >= b THEN a ELSE b

\* the snap step of the modifier on one axis
snap(pixels, size) == roundCells(pixels, size) * size

\* the modifier without Math.min: the offset is not held below maxX and maxY
createSnapModifierNoUpperBound(transform, containerNodeRect, draggingNodeRect) ==
    LET minX == containerNodeRect.left - draggingNodeRect.left + 120 + 1
        minY == containerNodeRect.top - draggingNodeRect.top + 40 + 1
    IN [x |-> MathMax(snap(transform.x, CellSizeWIDTH), minX),
        y |-> MathMax(snap(transform.y, CellSizeHEIGHT), minY)]

\* the modifier whose lower bounds leave out the 1px inset of the element
createSnapModifierNoInset(transform, containerNodeRect, draggingNodeRect) ==
    LET minX == containerNodeRect.left - draggingNodeRect.left + 120
        minY == containerNodeRect.top - draggingNodeRect.top + 40
        maxX == containerNodeRect.right - draggingNodeRect.right
        maxY == containerNodeRect.bottom - draggingNodeRect.bottom
    IN [x |-> MathMin(MathMax(snap(transform.x, CellSizeWIDTH), minX), maxX),
        y |-> MathMin(MathMax(snap(transform.y, CellSizeHEIGHT), minY), maxY)]

\* the modifier dnd-kit runs on every movement frame; a null rect reads as
\* zeros (?? 0 and the destructuring defaults), which is what NoRect holds
createSnapModifier(transform, containerNodeRect, draggingNodeRect) ==
    LET containerTop == containerNodeRect.top
        containerLeft == containerNodeRect.left
        containerBottom == containerNodeRect.bottom
        containerRight == containerNodeRect.right
        top == draggingNodeRect.top
        left == draggingNodeRect.left
        bottom == draggingNodeRect.bottom
        right == draggingNodeRect.right
        minX == containerLeft - left + 120 + 1
        minY == containerTop - top + 40 + 1
        maxX == containerRight - right
        maxY == containerBottom - bottom
    IN [x |-> MathMin(MathMax(snap(transform.x, CellSizeWIDTH), minX), maxX),
        y |-> MathMin(MathMax(snap(transform.y, CellSizeHEIGHT), minY), maxY)]

\* TIMES.length: eighteen half-hour slots and six evening slots
TIMESLength == 18 + 6

\* the header column and the header row of the grid template
HeaderColumnWidth == 120

HeaderRowHeight == 40

\* where the box of a table sits in the viewport, in pixels
ContainerOrigin == [left |-> 24, top |-> 100]

\* the rect of the box that holds the grid and the entries
gridRect ==
    [top |-> ContainerOrigin.top,
     left |-> ContainerOrigin.left,
     bottom |-> ContainerOrigin.top + HeaderRowHeight + TIMESLength * CellSizeHEIGHT,
     right |-> ContainerOrigin.left + HeaderColumnWidth + Len(DAY_LABELS) * CellSizeWIDTH,
     measured |-> TRUE]

\* DraggableSchedule: the absolute position of the element of an entry
position(schedule) ==
    LET leftIndex == indexOf(schedule.day)
        topIndex == schedule.range[1] - 1
        size == Len(schedule.range)
    IN [left |-> 120 + (CellSizeWIDTH * leftIndex) + 1,
        top |-> 40 + (topIndex * CellSizeHEIGHT + 1),
        width |-> CellSizeWIDTH - 1,
        height |-> CellSizeHEIGHT * size - 1]

\* the rect of that element in the viewport
elementRect(schedule) ==
    LET at == position(schedule)
    IN [top |-> ContainerOrigin.top + at.top,
        left |-> ContainerOrigin.left + at.left,
        bottom |-> ContainerOrigin.top + at.top + at.height,
        right |-> ContainerOrigin.left + at.left + at.width,
        measured |-> TRUE]

\* the entry lies on the grid: its day is a column, its slots are rows
InGrid(schedule) ==
    /\ indexOf(schedule.day) \in 0 .. (Len(DAY_LABELS) - 1)
    /\ \A j \in 1 .. Len(schedule.range) : schedule.range[j] \in 1 .. TIMESLength

\* the raw offsets of the pointer, in pixels
RawXs == {-200, -40, 83, 500}

RawYs == {-100, -15, 44, 800}

\* a movement frame of the drag of an entry: the modifier turns the raw offset
\* into the offset shown.  Each rect is measured or still null.  Drags of an
\* entry that lies off the grid are not followed.
DragMove(tableId, index, raw, containerMeasured, elementMeasured) ==
    LET schedule == schedulesMap[tableId][index + 1]
        containerNodeRect == IF containerMeasured THEN gridRect ELSE NoRect
        draggingNodeRect == IF elementMeasured THEN elementRect(schedule) ELSE NoRect
    IN /\ InGrid(schedule)
       /\ frame.dragging => frame.tableId = tableId /\ frame.index = index
       /\ frame' = [dragging |-> TRUE, tableId |-> tableId, index |-> index,
                    containerNodeRect |-> containerNodeRect,
                    draggingNodeRect |-> draggingNodeRect,
                    raw |-> raw,
                    transform |-> createSnapModifier(raw, containerNodeRect,
                                                     draggingNodeRect)]
       /\ UNCHANGED <<drag, storeVars, cacheVars, searchVars, tableVars>>

\* the drop: onDragEnd of the table's DndContext gets the offset last emitted
DragEnd ==
    LET result == handleDragEnd(schedulesMap, frame.tableId,
                                Draggable(frame.tableId, frame.index), frame.transform)
    IN /\ frame.dragging
       /\ frame' = NoFrame
       /\ drag' = [path |-> result.path, newDayIndex |-> result.newDayIndex]
       /\ IF result.called
          THEN /\ setSchedulesMap([map |-> result.map, thrown |-> result.thrown])
               /\ lastOp' = "updateSchedulePosition"
          ELSE UNCHANGED <<schedulesMap, thrown, lastOp, published>>
       /\ UNCHANGED <<now, cacheVars, searchVars, tableVars>>

\* the drag is aborted: nothing is committed
DragCancel ==
    /\ frame.dragging
    /\ frame' = NoFrame
    /\ UNCHANGED <<drag, storeVars, cacheVars, searchVars, tableVars>>

InitSnapping ==
    /\ schedulesMap = [t \in {SeedId} |-> <<e1>>]
    /\ thrown = "none"
    /\ now = 3
    /\ lastOp = "none"
    /\ published = NothingPublished
    /\ InitDnd
    /\ InitCache
    /\ responses = NoResponses
    /\ InitDialogs
    /\ InitTable

NextSnap ==
    \/ \E tableId \in DOMAIN schedulesMap :
          \E index \in 0 .. (Len(schedulesMap[tableId]) - 1), x \in RawXs, y \in RawYs,
             containerMeasured \in BOOLEAN, elementMeasured \in BOOLEAN :
              DragMove(tableId, index, [x |-> x, y |-> y], containerMeasured, elementMeasured)
    \/ DragEnd
    \/ DragCancel

SpecSnap == InitSnapping /\ [][NextSnap]_vars

----------------------------------------------------------------------------
(* SearchDialog.tsx: the catalog and the filter *)

\* Strings the code searches in (id, title, credits, query) are sequences of
\* one-character strings.

PAGE_SIZE == 100

\* number of lectures in the large majors catalog
CatalogSize == 34

\* String.prototype.toLowerCase, character by character
toLowerCaseChar(ch) ==
    CASE ch = "A" -> "a"
      [] ch = "B" -> "b"
      [] ch = "D" -> "d"
      [] ch = "L" -> "l"
      [] ch = "M" -> "m"
      [] OTHER -> ch

toLowerCase(text) == [i \in 1 .. Len(text) |-> toLowerCaseChar(text[i])]

\* String.prototype.includes: query occurs in text at some offset
includesText(text, query) ==
    \E at \in 0 .. (Len(text) - Len(query)) : SubSeq(text, at + 1, at + Len(query)) = query

\* String.prototype.startsWith
startsWith(text, prefix) ==
    /\ Len(prefix) <= Len(text)
    /\ SubSeq(text, 1, Len(prefix)) = prefix

\* parseSchedule of utils.ts: the sessions of a raw schedule string
parseSchedule(schedule) ==
    CASE schedule = "Mon2~3" -> <<[day |-> "Mon", range |-> <<2, 3>>, room |-> "A101"]>>
      [] schedule = "Tue5~6" -> <<[day |-> "Tue", range |-> <<5, 6>>, room |-> "B202"]>>
      [] schedule = "Mon4,Wed1~2" -> <<[day |-> "Mon", range |-> <<4>>, room |-> "C303"],
                                      [day |-> "Wed", range |-> <<1, 2>>, room |-> "C303"]>>
      [] schedule = "Sat24" -> <<[day |-> "Sat", range |-> <<24>>, room |-> "D404"]>>
      [] OTHER -> <<>>

\* lecture.schedule ? parseSchedule(lecture.schedule) : []
schedulesOf(lecture) == IF lecture.schedule # "" THEN parseSchedule(lecture.schedule) ELSE <<>>

\* filteredLectures whose grade stage is left out
filteredLecturesNoGradeStage(list, options) ==
    LET query == options.query
        byText(lecture) ==
            \/ includesText(toLowerCase(lecture.title), toLowerCase(query))
            \/ includesText(toLowerCase(lecture.id), toLowerCase(query))
        byMajor(lecture) == Len(options.majors) = 0 \/ includes(options.majors, lecture.major)
        byCredits(lecture) ==
            options.credits = <<>> \/ startsWith(lecture.credits, options.credits)
        byDay(lecture) ==
            IF Len(options.days) = 0 THEN TRUE
            ELSE LET schedules == schedulesOf(lecture)
                 IN \E s \in 1 .. Len(schedules) : includes(options.days, schedules[s].day)
        byTime(lecture) ==
            IF Len(options.times) = 0 THEN TRUE
            ELSE LET schedules == schedulesOf(lecture)
                 IN \E s \in 1 .. Len(schedules) :
                        \E j \in 1 .. Len(schedules[s].range) :
                            includes(options.times, schedules[s].range[j])
    IN SelectSeq(SelectSeq(SelectSeq(SelectSeq(SelectSeq(list,
           byText), byMajor), byCredits), byDay), byTime)

\* the useMemo of filteredLectures: six filter stages, one after the other.
\* credits is a string of the select ('' for all); String(credits) is itself,
\* and !credits holds of '' and of undefined, both written <<>>.
filteredLectures(list, options) ==
    LET query == options.query
        credits == options.credits
        grades == options.grades
        days == options.days
        times == options.times
        majors == options.majors
        byText(lecture) ==
            \/ includesText(toLowerCase(lecture.title), toLowerCase(query))
            \/ includesText(toLowerCase(lecture.id), toLowerCase(query))
        byGrade(lecture) == Len(grades) = 0 \/ includes(grades, lecture.grade)
        byMajor(lecture) == Len(majors) = 0 \/ includes(majors, lecture.major)
        byCredits(lecture) == credits = <<>> \/ startsWith(lecture.credits, credits)
        byDay(lecture) ==
            IF Len(days) = 0 THEN TRUE
            ELSE LET schedules == schedulesOf(lecture)
                 IN \E s \in 1 .. Len(schedules) : includes(days, schedules[s].day)
        byTime(lecture) ==
            IF Len(times) = 0 THEN TRUE
            ELSE LET schedules == schedulesOf(lecture)
                 IN \E s \in 1 .. Len(schedules) :
                        \E j \in 1 .. Len(schedules[s].range) :
                            includes(times, schedules[s].range[j])
    IN SelectSeq(SelectSeq(SelectSeq(SelectSeq(SelectSeq(SelectSeq(list,
           byText), byGrade), byMajor), byCredits), byDay), byTime)

\* Math.ceil(filteredLectures.length / PAGE_SIZE)
lastPageOf(filtered) == (Len(filtered) + PAGE_SIZE - 1) \div PAGE_SIZE

\* filteredLectures.slice(0, page * PAGE_SIZE)
visibleLectures(filtered, pageNow) ==
    SubSeq(filtered, 1, MathMin(MathMax(pageNow * PAGE_SIZE, 0), Len(filtered)))

\* results.flatMap(result => result.data) over the promises awaited, in order
RECURSIVE flatMapData(_, _, _)
flatMapData(promises, reqs, served) ==
    IF promises = <<>> THEN <<>>
    ELSE served[reqs[Head(promises)].url] \o flatMapData(Tail(promises), reqs, served)

\* the lectures a server may hold
m1 == [id |-> <<"M", "1">>, title |-> <<"A", "l", "g", "o">>, credits |-> <<"3">>,
       grade |-> 1, major |-> "CS", schedule |-> "Mon2~3"]

m2 == [id |-> <<"M", "2">>, title |-> <<"D", "a", "t", "a">>, credits |-> <<"1">>,
       grade |-> 2, major |-> "CS", schedule |-> "Tue5~6"]

m3 == [id |-> <<"M", "3">>, title |-> <<"B", "a", "l", "l">>, credits |-> <<"1", ".", "5">>,
       grade |-> 3, major |-> "Math", schedule |-> "Mon4,Wed1~2"]

m4 == [id |-> <<"M", "4">>, title |-> <<"l", "a", "b">>, credits |-> <<"2">>,
       grade |-> 4, major |-> "Math", schedule |-> ""]

l1 == [id |-> <<"L", "1">>, title |-> <<"A", "r", "t">>, credits |-> <<"1">>,
       grade |-> 2, major |-> "Lib", schedule |-> "Sat24"]

SmallMajors == <<m1, m2, m3, m4>>

SmallLiberalArts == <<l1>>

\* a majors catalog of more than a page once fetched three times
LargeMajors == [i \in 1 .. CatalogSize |-> IF i % 2 = 1 THEN m1 ELSE m2]

MajorsUrl == "/schedules-majors.json"

LiberalArtsUrl == "/schedules-liberal-arts.json"

\* what the two urls serve
Served(majors, liberalArts) ==
    [url \in {MajorsUrl, LiberalArtsUrl} |-> IF url = MajorsUrl THEN majors ELSE liberalArts]

----------------------------------------------------------------------------
(* SearchDialog.tsx: the catalog fetch cache *)

\* A promise is named by the position of its axios.get call in requests.
\* A fetcher's result: the promise returned, and the cache and the requests
\* as the call leaves them.

\* fetchMajors that stores nothing in the cache when it issues the request
fetchMajorsUncached(cache, reqs) ==
    [promise |-> Len(reqs) + 1,
     cache |-> cache,
     requests |-> Append(reqs, [url |-> "/schedules-majors.json", state |-> "pending"])]

fetchMajors(cache, reqs) ==
    LET cacheKey == "schedules-majors"
        cached == cache[cacheKey]
        promise == Len(reqs) + 1
    IN IF cached # NoEntry
       THEN [promise |-> cached.promise, cache |-> cache, requests |-> reqs]
       ELSE [promise |-> promise,
             cache |-> [cache EXCEPT ![cacheKey] = [promise |-> promise, data |-> "undefined"]],
             requests |-> Append(reqs, [url |-> "/schedules-majors.json",
                                        state |-> "pending"])]

fetchLiberalArts(cache, reqs) ==
    LET cacheKey == "schedules-liberal-arts"
        cached == cache[cacheKey]
        promise == Len(reqs) + 1
    IN IF cached # NoEntry
       THEN [promise |-> cached.promise, cache |-> cache, requests |-> reqs]
       ELSE [promise |-> promise,
             cache |-> [cache EXCEPT ![cacheKey] = [promise |-> promise, data |-> "undefined"]],
             requests |-> Append(reqs, [url |-> "/schedules-liberal-arts.json",
                                        state |-> "pending"])]

\* the calls of fetchAllLectures, in order: majors, liberal arts, three times
CallsOfFetchAll == 6

\* the k-th call of fetchAllLectures
fetchCall(k, cache, reqs) ==
    IF k % 2 = 1 THEN fetchMajors(cache, reqs) ELSE fetchLiberalArts(cache, reqs)

\* The observer of dialog c after a render in which its catalog, query and
\* isOpen have become lecs, opts and open.  The effect depends on lastPage: when
\* lastPage differs from the previous render's, it drops the observer and, the
\* refs being set only while the modal is open, installs one whose callback
\* closes over the new lastPage.  An observer whose element was unmounted by
\* closing never fires again.
observerAfter(c, lecs, opts, open) ==
    LET before == lastPageOf(filteredLectures(lectures[c], searchOptions[c]))
        after == lastPageOf(filteredLectures(lecs, opts))
        observing == IF after # before THEN open ELSE dialog[c].observing /\ open
    IN [observing |-> observing, lastPage |-> IF observing THEN after ELSE 0]

\* dialog c after that render; op names the handler that caused it
rendered(c, lecs, opts, open, day, time, op) ==
    [isOpen |-> open, day |-> day, time |-> time,
     observing |-> observerAfter(c, lecs, opts, open).observing,
     lastPage |-> observerAfter(c, lecs, opts, open).lastPage,
     op |-> op]

\* fetchAllLectures().then(results => setLectures(results.flatMap(...)))
thenSetLectures(c) ==
    LET lecs == flatMapData(got[c], requests, responses)
    IN /\ lectures' = [lectures EXCEPT ![c] = lecs]
       /\ dialog' = [dialog EXCEPT ![c] =
                        rendered(c, lecs, searchOptions[c], dialog[c].isOpen,
                                 dialog[c].day, dialog[c].time, "setLectures")]
       /\ UNCHANGED <<responses, page, searchOptions>>

\* an invocation makes its call k and waits for the promise returned
CallAndAwait(c, k) ==
    LET call == fetchCall(k, lectureApiCache, requests)
    IN /\ lectureApiCache' = call.cache
       /\ requests' = call.requests
       /\ got' = [got EXCEPT ![c] = Append(@, call.promise)]
       /\ pc' = [pc EXCEPT ![c] = "awaiting"]

\* the effect of a mounted dialog starts fetchAllLectures, which runs to its first await
StartFetchAll(c) ==
    /\ pc[c] = "idle"
    /\ CallAndAwait(c, 1)
    /\ UNCHANGED <<storeVars, dndVars, searchVars, tableVars>>

\* the awaited promise is fulfilled: the next call, or after the sixth the end,
\* upon which the dialog's then callback stores the catalog
ResumeFetchAll(c) ==
    /\ pc[c] = "awaiting"
    /\ requests[got[c][Len(got[c])]].state = "fulfilled"
    /\ IF Len(got[c]) < CallsOfFetchAll
       THEN /\ CallAndAwait(c, Len(got[c]) + 1)
            /\ UNCHANGED searchVars
       ELSE /\ pc' = [pc EXCEPT ![c] = "done"]
            /\ thenSetLectures(c)
            /\ UNCHANGED <<lectureApiCache, requests, got>>
    /\ UNCHANGED <<storeVars, dndVars, tableVars>>

\* the awaited promise is rejected: the await throws and fetchAllLectures
\* rejects; the effect chains then only, with no second callback and no catch,
\* so nothing of the dialog runs
FailFetchAll(c) ==
    /\ pc[c] = "awaiting"
    /\ requests[got[c][Len(got[c])]].state = "rejected"
    /\ pc' = [pc EXCEPT ![c] = "failed"]
    /\ UNCHANGED <<lectureApiCache, requests, got, storeVars, dndVars, searchVars, tableVars>>

\* the response arrives; promise.then(data => entry.data = data) runs
Fulfil(r) ==
    /\ requests[r].state = "pending"
    /\ requests' = [requests EXCEPT ![r].state = "fulfilled"]
    /\ lectureApiCache' = [k \in CacheKeys |->
                             IF lectureApiCache[k].promise = r
                             THEN [lectureApiCache[k] EXCEPT !.data = "response"]
                             ELSE lectureApiCache[k]]
    /\ UNCHANGED <<pc, got, storeVars, dndVars, searchVars, tableVars>>

\* the request fails
Reject(r) ==
    /\ requests[r].state = "pending"
    /\ requests' = [requests EXCEPT ![r].state = "rejected"]
    /\ UNCHANGED <<lectureApiCache, pc, got, storeVars, dndVars, searchVars, tableVars>>

InitFetching ==
    /\ schedulesMap = [t \in {SeedId} |-> <<e1>>]
    /\ thrown = "none"
    /\ now = 3
    /\ lastOp = "none"
    /\ published = NothingPublished
    /\ InitDnd
    /\ InitCache
    /\ \E majors \in {<<>>, SmallMajors}, liberalArts \in {<<>>, SmallLiberalArts} :
           responses = Served(majors, liberalArts)
    /\ InitDialogs
    /\ InitTable

NextCache ==
    \/ \E c \in Callers : StartFetchAll(c)
    \/ \E c \in Callers : ResumeFetchAll(c)
    \/ \E c \in Callers : FailFetchAll(c)
    \/ \E r \in 1 .. Len(requests) : Fulfil(r)
    \/ \E r \in 1 .. Len(requests) : Reject(r)

SpecCache == InitFetching /\ [][NextCache]_vars

----------------------------------------------------------------------------
(* SearchDialog.tsx and ScheduleTables.tsx: the dialog *)

\* ScheduleTables renders one SearchDialog
TheDialog == 1

\* setSearchInfo({ tableId }) of the add button, with no day and no time, and
\* setSearchInfo({ tableId, day, time }) of a click on a cell
OpenInputs == {<<"undefined", 0>>, <<"Mon", 2>>}

\* the day/time effect: it runs when the day or the time prop has changed
afterDayTimeEffect(c, day, time) ==
    IF day # dialog[c].day \/ time # dialog[c].time
    THEN [options |-> [searchOptions[c] EXCEPT
                          !.days = IF day # "undefined" THEN <<day>> ELSE <<>>,
                          !.times = IF time # 0 THEN <<time>> ELSE <<>>],
          page |-> 1]
    ELSE [options |-> searchOptions[c], page |-> page[c]]

\* ScheduleTables sets searchInfo: the dialog opens
Open(c, day, time) ==
    LET after == afterDayTimeEffect(c, day, time)
    IN /\ pc[c] # "idle"
       /\ ~dialog[c].isOpen
       /\ searchOptions' = [searchOptions EXCEPT ![c] = after.options]
       /\ page' = [page EXCEPT ![c] = after.page]
       /\ dialog' = [dialog EXCEPT ![c] =
                        rendered(c, lectures[c], after.options, TRUE, day, time, "open")]
       /\ UNCHANGED <<responses, lectures, storeVars, dndVars, cacheVars, tableVars>>

\* onClose: setSearchInfo(null)
Close(c) ==
    LET after == afterDayTimeEffect(c, "undefined", 0)
    IN /\ dialog[c].isOpen
       /\ searchOptions' = [searchOptions EXCEPT ![c] = after.options]
       /\ page' = [page EXCEPT ![c] = after.page]
       /\ dialog' = [dialog EXCEPT ![c] =
                        rendered(c, lectures[c], after.options, FALSE, "undefined", 0,
                                 "close")]
       /\ UNCHANGED <<responses, lectures, storeVars, dndVars, cacheVars, tableVars>>

\* the values the controls of the dialog hand to changeSearchOption
OptionInputs ==
    {<<"query", <<>>>>, <<"query", <<"A", "l">>>>, <<"query", <<"z">>>>,
     <<"grades", <<>>>>, <<"grades", <<2, 3>>>>,
     <<"credits", <<>>>>, <<"credits", <<"1">>>>,
     <<"majors", <<>>>>, <<"majors", <<"Math">>>>}

changeSearchOption(c, field, value) ==
    LET options == [searchOptions[c] EXCEPT ![field] = value]
    IN /\ dialog[c].isOpen
       /\ page' = [page EXCEPT ![c] = 1]
       /\ searchOptions' = [searchOptions EXCEPT ![c] = options]
       /\ dialog' = [dialog EXCEPT ![c] =
                        rendered(c, lectures[c], options, TRUE, dialog[c].day,
                                 dialog[c].time, "changeSearchOption")]
       /\ UNCHANGED <<responses, lectures, storeVars, dndVars, cacheVars, tableVars>>

\* the IntersectionObserver callback with entries[0].isIntersecting
Intersect(c) ==
    /\ dialog[c].observing
    /\ page' = [page EXCEPT ![c] = MathMin(dialog[c].lastPage, page[c] + 1)]
    /\ dialog' = [dialog EXCEPT ![c].op = "intersect"]
    /\ UNCHANGED <<responses, lectures, searchOptions, storeVars, dndVars, cacheVars, tableVars>>

InitSearching ==
    /\ schedulesMap = [t \in {SeedId} |-> <<e1>>]
    /\ thrown = "none"
    /\ now = 3
    /\ lastOp = "none"
    /\ published = NothingPublished
    /\ InitDnd
    /\ InitCache
    /\ \E majors \in {SmallMajors, LargeMajors}, liberalArts \in {<<>>, SmallLiberalArts} :
           responses = Served(majors, liberalArts)
    /\ InitDialogs
    /\ InitTable

NextSearch ==
    \/ StartFetchAll(TheDialog)
    \/ ResumeFetchAll(TheDialog)
    \/ FailFetchAll(TheDialog)
    \/ \E r \in 1 .. Len(requests) : Fulfil(r)
    \/ \E r \in 1 .. Len(requests) : Reject(r)
    \/ \E props \in OpenInputs : Open(TheDialog, props[1], props[2])
    \/ Close(TheDialog)
    \/ \E input \in OptionInputs : changeSearchOption(TheDialog, input[1], input[2])
    \/ Intersect(TheDialog)

SpecSearch == InitSearching /\ [][NextSearch]_vars

----------------------------------------------------------------------------
(* TableScheduleContext.tsx: TableScheduleProvider *)

\* most writes made through one context value before the provider renders again
MaxWrites == 2

\* The actions of the context value compute the new list from the schedules
\* the value closes over, the state of the render that made the value.

\* addSchedules: [...schedules, ...newSchedules]
tableAddSchedules(schedules, newSchedules) == schedules \o newSchedules

\* removeSchedule: schedules.filter(...)
tableRemoveSchedule(schedules, day, time) == filterSchedules(schedules, day, time)

\* updateSchedulePosition: schedules.map(...)
tableUpdateSchedulePosition(schedules, scheduleIndex, newDay, timeOffset) ==
    [i \in 1 .. Len(schedules) |->
        moveSchedule(schedules[i], i - 1, scheduleIndex, newDay, timeOffset)]

\* the list stays within the bounds of the model
TableWithinBounds(schedules) ==
    /\ Len(schedules) <= MaxEntries
    /\ \A i \in 1 .. Len(schedules) :
           \A j \in 1 .. Len(schedules[i].range) : schedules[i].range[j] \in 1 .. MaxSlot

\* notifyChange(updatedSchedules): setSchedules, then onSchedulesChange.
\* reflected is the same write made on the list that reflects the earlier ones.
notifyChange(updatedSchedules, reflected) ==
    /\ tableProvider.writes < MaxWrites
    /\ TableWithinBounds(updatedSchedules)
    /\ tableProvider' = [tableProvider EXCEPT
                            !.schedules = updatedSchedules,
                            !.notified = updatedSchedules,
                            !.called = TRUE,
                            !.writes = @ + 1,
                            !.reflected = reflected]
    /\ UNCHANGED <<storeVars, dndVars, cacheVars, searchVars>>

TableAddSchedules(newSchedules) ==
    notifyChange(tableAddSchedules(tableProvider.value.schedules, newSchedules),
                 tableAddSchedules(tableProvider.reflected, newSchedules))

TableRemoveSchedule(day, time) ==
    notifyChange(tableRemoveSchedule(tableProvider.value.schedules, day, time),
                 tableRemoveSchedule(tableProvider.reflected, day, time))

TableUpdateSchedulePosition(scheduleIndex, newDay, timeOffset) ==
    notifyChange(tableUpdateSchedulePosition(tableProvider.value.schedules, scheduleIndex,
                                             newDay, timeOffset),
                 tableUpdateSchedulePosition(tableProvider.reflected, scheduleIndex,
                                             newDay, timeOffset))

\* the provider renders with the new state: useMemo, depending on schedules,
\* makes a new value that closes over it
TableRender ==
    /\ tableProvider.writes > 0
    /\ tableProvider' = [tableProvider EXCEPT
                            !.value = [schedules |-> tableProvider.schedules],
                            !.writes = 0,
                            !.reflected = tableProvider.schedules]
    /\ UNCHANGED <<storeVars, dndVars, cacheVars, searchVars>>

InitTableProvider ==
    /\ schedulesMap = [t \in {SeedId} |-> <<e1>>]
    /\ thrown = "none"
    /\ now = 3
    /\ lastOp = "none"
    /\ published = NothingPublished
    /\ InitDnd
    /\ InitCache
    /\ responses = NoResponses
    /\ InitDialogs
    /\ \E initialSchedules \in ScheduleInputs : tableProvider = MountedTable(initialSchedules)

NextTable ==
    \/ \E newSchedules \in ScheduleInputs : TableAddSchedules(newSchedules)
    \/ \E day \in DayInputs, time \in TimeInputs : TableRemoveSchedule(day, time)
    \/ \E scheduleIndex \in IndexInputs, newDay \in DayInputs, timeOffset \in OffsetInputs :
           TableUpdateSchedulePosition(scheduleIndex, newDay, timeOffset)
    \/ TableRender

SpecTable == InitTableProvider /\ [][NextTable]_vars

----------------------------------------------------------------------------
(* Properties of the store.  Each quantifies over the inputs of an updater at  *)
(* every reachable mapping; the actions above publish exactly these outcomes.  *)

AllDays == {DAY_LABELS[d] : d \in 1 .. Len(DAY_LABELS)}

AllOffsets == -2 .. 2

AllTimes == 0 .. (MaxSlot + 1)

\* table ids the mapping does not hold
UnknownIds == {UnknownId, "schedule-0", newTableId(now)} \ DOMAIN schedulesMap

ValidIndexes(list) == 0 .. (Len(list) - 1)

OutOfBoundsIndexes(list) == {-1, Len(list), Len(list) + 1}

\* the outcomes of the three entry writers on table t of map
EntryWrites(map, t) ==
    {addSchedule(map, t, schedules).map : schedules \in ScheduleInputs}
    \cup {removeSchedule(map, t, day, time).map : day \in AllDays, time \in TimeInputs}
    \cup {updateSchedulePosition(map, t, i, newDay, k).map :
            i \in IndexInputs, newDay \in DayInputs, k \in OffsetInputs}

\* the entry e1 after a move to Tuesday, two slots later
e1Moved == [day |-> "Tue", range |-> <<4, 5, 6>>, room |-> "A101", lecture |-> "L1"]

\* C1: in every reachable state the mapping holds at least one table, removeTable
\* of the only remaining table being rejected.
C1_AtLeastOneTable == Cardinality(DOMAIN schedulesMap) >= 1

\* C2: duplicateTable stores under the generated id a list equal to the source's
\* list and leaves the source as it was; afterwards addSchedule, removeSchedule
\* and updateSchedulePosition on the source leave the copy's list unchanged, and
\* on the copy leave the source's list unchanged.
C2_DuplicateIsolated ==
    \A src \in DOMAIN schedulesMap :
        LET dup == duplicateTable(schedulesMap, src, now)
            copy == newTableId(now)
        IN /\ dup.thrown = "none"
           /\ {src, copy} \subseteq DOMAIN dup.map
           /\ dup.map[copy] = schedulesMap[src]
           /\ dup.map[src] = schedulesMap[src]
           /\ copy # src =>
                /\ \A m \in EntryWrites(dup.map, src) :
                       copy \in DOMAIN m /\ m[copy] = schedulesMap[src]
                /\ \A m \in EntryWrites(dup.map, copy) :
                       src \in DOMAIN m /\ m[src] = schedulesMap[src]

\* a copy of the seed table was moved after the duplication and the seed table
\* still holds what it held
C2_Witness ==
    /\ lastOp = "updateSchedulePosition"
    /\ SeedId \in DOMAIN schedulesMap
    /\ schedulesMap[SeedId] = <<e1>>
    /\ \E copy \in DOMAIN schedulesMap \ {SeedId} : schedulesMap[copy] = <<e1Moved>>

\* C3: duplicateTable of an existing table stores the copy under an id no table
\* has: one more table, and every table there was keeps its list.
C3_FreshTableId ==
    \A src \in DOMAIN schedulesMap :
        LET dup == duplicateTable(schedulesMap, src, now)
        IN /\ newTableId(now) \notin DOMAIN schedulesMap
           /\ Cardinality(DOMAIN dup.map) = Cardinality(DOMAIN schedulesMap) + 1
           /\ \A t \in DOMAIN schedulesMap : dup.map[t] = schedulesMap[t]

\* the i-th smallest member of a set of indexes
Nth(indexes, i) == CHOOSE n \in indexes : Cardinality({m \in indexes : m < n}) = i - 1

\* C6: removeSchedule(t, day, time) removes from table t all and only the entries
\* on that day whose range holds that time; the others keep their order, and
\* every other table is unchanged.
C6_RemoveEntryExact ==
    \A t \in DOMAIN schedulesMap, day \in AllDays, time \in AllTimes :
        LET old == schedulesMap[t]
            out == removeSchedule(schedulesMap, t, day, time)
            kept == {i \in 1 .. Len(old) :
                        ~(old[i].day = day
                          /\ time \in {old[i].range[j] : j \in 1 .. Len(old[i].range)})}
        IN /\ out.thrown = "none"
           /\ DOMAIN out.map = DOMAIN schedulesMap
           /\ \A u \in DOMAIN schedulesMap \ {t} : out.map[u] = schedulesMap[u]
           /\ Len(out.map[t]) = Cardinality(kept)
           /\ \A i \in 1 .. Cardinality(kept) : out.map[t][i] = old[Nth(kept, i)]
           /\ (kept = 1 .. Len(old)) => out.map[t] = old

\* removeSchedule has removed the Monday 2-4 entry of the seed table by
\* (Monday, 3) and kept its Monday 5-6 entry
C6_Witness ==
    /\ lastOp = "removeSchedule"
    /\ thrown = "none"
    /\ SeedId \in DOMAIN schedulesMap
    /\ schedulesMap[SeedId] = <<e2>>
    /\ removeSchedule([t \in {SeedId} |-> <<e1, e2>>], SeedId, "Mon", 3).map[SeedId] = <<e2>>

\* C7: moving entry i to day d by k slots and then back to its day by -k slots
\* gives the entry there was, and the mapping there was.
C7_RoundTrip ==
    \A t \in DOMAIN schedulesMap :
        \A i \in ValidIndexes(schedulesMap[t]), d \in AllDays, k \in AllOffsets :
            LET original == schedulesMap[t][i + 1]
                there == updateSchedulePosition(schedulesMap, t, i, d, k).map
                back == updateSchedulePosition(there, t, i, original.day, -k).map
            IN /\ back[t][i + 1] = original
               /\ back = schedulesMap

\* an entry was moved to Tuesday, two slots later, and the inverse move gives
\* the catalog entry back
C7_Witness ==
    /\ lastOp = "updateSchedulePosition"
    /\ \E t \in DOMAIN schedulesMap :
           /\ schedulesMap[t] = <<e1Moved>>
           /\ updateSchedulePosition(schedulesMap, t, 0, "Mon", -2).map[t] = <<e1>>

\* C8: updateSchedulePosition with an index outside the table's entries raises
\* an error and leaves the mapping unchanged.
C8_IndexErrorReported ==
    \A t \in DOMAIN schedulesMap :
        \A i \in OutOfBoundsIndexes(schedulesMap[t]), d \in DayInputs, k \in OffsetInputs :
            LET out == updateSchedulePosition(schedulesMap, t, i, d, k)
            IN out.thrown # "none" /\ out.map = schedulesMap

\* the list that addSchedule leaves in a table it knows: what was there, then
\* the new entries in their order
Appended(old, new, schedules) ==
    /\ Len(new) = Len(old) + Len(schedules)
    /\ \A i \in 1 .. Len(old) : new[i] = old[i]
    /\ \A i \in 1 .. Len(schedules) : new[Len(old) + i] = schedules[i]

AddToKnownAppends ==
    \A t \in DOMAIN schedulesMap, schedules \in ScheduleInputs :
        LET out == addSchedule(schedulesMap, t, schedules)
        IN /\ out.thrown = "none"
           /\ DOMAIN out.map = DOMAIN schedulesMap
           /\ Appended(schedulesMap[t], out.map[t], schedules)
           /\ \A u \in DOMAIN schedulesMap \ {t} : out.map[u] = schedulesMap[u]

\* C9 as stated: addSchedule to a table id the mapping does not hold raises
\* nothing and leaves the mapping as it was; to one it holds it appends.
C9_UnknownTableSilent ==
    /\ \A t \in UnknownIds, schedules \in ScheduleInputs :
           LET out == addSchedule(schedulesMap, t, schedules)
           IN out.thrown = "none" /\ out.map = schedulesMap
    /\ AddToKnownAppends

\* C9 as amended: addSchedule to a table id the mapping does not hold raises a
\* TypeError and leaves the mapping as it was; to one it holds it appends the
\* entries, in order, at the end of that table's list.
C9_UnknownTableRaises ==
    /\ \A t \in UnknownIds, schedules \in ScheduleInputs :
           LET out == addSchedule(schedulesMap, t, schedules)
           IN out.thrown = "TypeError" /\ out.map = schedulesMap
    /\ AddToKnownAppends

\* addSchedule was called with the id '' and raised
C9_Witness ==
    /\ lastOp = "addSchedule"
    /\ thrown = "TypeError"
    /\ UnknownId \notin DOMAIN schedulesMap

\* a range is a run of consecutive slots
Contiguous(range) == \A j \in 1 .. (Len(range) - 1) : range[j + 1] = range[j] + 1

\* C10: updateSchedulePosition(t, i, newDay, k) changes only entry i of table t:
\* its day becomes newDay, every slot of its range grows by k (same length,
\* still consecutive), its room and lecture stay; the other entries, their
\* number and order, and the other tables stay.
C10_UpdateFrame ==
    \A t \in DOMAIN schedulesMap :
        \A i \in ValidIndexes(schedulesMap[t]), newDay \in AllDays, k \in AllOffsets :
            LET old == schedulesMap[t]
                out == updateSchedulePosition(schedulesMap, t, i, newDay, k)
                new == out.map[t]
            IN /\ out.thrown = "none"
               /\ DOMAIN out.map = DOMAIN schedulesMap
               /\ \A u \in DOMAIN schedulesMap \ {t} : out.map[u] = schedulesMap[u]
               /\ Len(new) = Len(old)
               /\ \A j \in 1 .. Len(old) : j # i + 1 => new[j] = old[j]
               /\ new[i + 1].day = newDay
               /\ Len(new[i + 1].range) = Len(old[i + 1].range)
               /\ \A j \in 1 .. Len(old[i + 1].range) :
                      new[i + 1].range[j] = old[i + 1].range[j] + k
               /\ Contiguous(old[i + 1].range) /\ Contiguous(new[i + 1].range)
               /\ new[i + 1].room = old[i + 1].room
               /\ new[i + 1].lecture = old[i + 1].lecture

\* the first entry of a two-entry table was moved and the second is as it was
C10_Witness ==
    /\ lastOp = "updateSchedulePosition"
    /\ thrown = "none"
    /\ \E t \in DOMAIN schedulesMap : schedulesMap[t] = <<e1Moved, e2>>

\* final horizontal offsets from twelve cells left to twelve cells right, at
\* every half cell and one pixel either side of it
ClaimDeltaXs == {40 * c + e : c \in -24 .. 24, e \in {-1, 0, 1}}

\* C5: a drag-end whose newDayIndex (index of the start day plus the day delta)
\* is below 0 or at least the number of days is discarded: updateSchedulePosition
\* is not called and the mapping is unchanged.
C5_OutOfRangeDiscarded ==
    /\ \A tableId \in DOMAIN schedulesMap :
         \A index \in ValidIndexes(schedulesMap[tableId]), x \in ClaimDeltaXs, y \in DeltaYs :
            LET active == Draggable(tableId, index)
                newDayIndex == indexOf(active.day) + floorCells(x, CellSizeWIDTH)
                result == handleDragEnd(schedulesMap, tableId, active, [x |-> x, y |-> y])
            IN (newDayIndex < 0 \/ newDayIndex >= Len(DAY_LABELS)) =>
                   /\ ~result.called
                   /\ result.path = "discarded"
                   /\ result.map = schedulesMap
    /\ drag.path = "committed" => drag.newDayIndex \in 0 .. (Len(DAY_LABELS) - 1)

\* a drag of a Saturday entry one cell to the right has ended and was discarded
C5_Witness ==
    /\ drag.path = "discarded"
    /\ drag.newDayIndex = Len(DAY_LABELS)
    /\ \E t \in DOMAIN schedulesMap : \E i \in 1 .. Len(schedulesMap[t]) :
           schedulesMap[t][i].day = "Sat"

\* the url each cache key is fetched from, and the key of call k
UrlOf(key) == "/" \o key \o ".json"

KeyOfCall(k) == IF k % 2 = 1 THEN "schedules-majors" ELSE "schedules-liberal-arts"

RequestsFor(key) == {r \in 1 .. Len(requests) : requests[r].url = UrlOf(key)}

\* C4: for each cache key, however many calls were made while the first promise
\* is pending or after it settled, one axios.get was issued, and every call
\* returned the same promise.
C4_OneFetchPerKey ==
    /\ \A key \in CacheKeys : Cardinality(RequestsFor(key)) <= 1
    /\ \A c \in Callers : \A k \in 1 .. Len(got[c]) :
           /\ RequestsFor(KeyOfCall(k)) = {got[c][k]}
           /\ \A c2 \in Callers : \A k2 \in 1 .. Len(got[c2]) :
                  KeyOfCall(k2) = KeyOfCall(k) => got[c2][k2] = got[c][k]

\* two invocations have each called fetchMajors and fetchLiberalArts and wait
\* for the one pending liberal-arts promise; two requests were issued in all
C4_Witness ==
    \E c1, c2 \in Callers :
        /\ c1 # c2
        /\ pc[c1] = "awaiting" /\ pc[c2] = "awaiting"
        /\ Len(got[c1]) = 2 /\ Len(got[c2]) = 2
        /\ requests[got[c1][2]].state = "pending"
        /\ requests[got[c1][1]].state = "fulfilled"
        /\ Len(requests) = 2

----------------------------------------------------------------------------
(* Properties of the context values *)

\* C18: across every store write the write handle (the object holding addSchedule,
\* removeSchedule, duplicateTable, removeTable, updateSchedulePosition) is never
\* replaced, so a subscriber of the write context alone is not notified, and
\* every write that changes the mapping replaces the read value.
C18_WriteHandleStable ==
    [][/\ ~published'.write
       /\ (schedulesMap' # schedulesMap => published'.read)]_vars

\* a move has changed the mapping and the read value was replaced
C18_Witness ==
    /\ lastOp = "updateSchedulePosition"
    /\ published.read
    /\ ~published.write
    /\ \E t \in DOMAIN schedulesMap : \E i \in 1 .. Len(schedulesMap[t]) :
           schedulesMap[t][i].day = "Tue"

----------------------------------------------------------------------------
(* Properties of the drag *)

\* rounding to the nearest integer with a tie going away from zero
RoundHalfAway(pixels, size) ==
    IF pixels >= 0 THEN (2 * pixels + size) \div (2 * size)
    ELSE 0 - ((2 * (0 - pixels) + size) \div (2 * size))

\* C14: at drag-end the final offset (x, y) becomes dayDelta = round(x / 80) and
\* timeDelta = round(y / 30), rounding to the nearest cell, for every integer x and
\* y, and updateSchedulePosition is called with the day at
\* indexOf(start day) + dayDelta and with timeDelta.
C14_DragEndRounds ==
    \A tableId \in DOMAIN schedulesMap :
        \A index \in 0 .. (Len(schedulesMap[tableId]) - 1), x \in DeltaXs, y \in DeltaYs :
            LET active == Draggable(tableId, index)
                dayDelta == RoundHalfAway(x, CellSizeWIDTH)
                timeDelta == RoundHalfAway(y, CellSizeHEIGHT)
                newDayIndex == indexOf(active.day) + dayDelta
                result == handleDragEnd(schedulesMap, tableId, active, [x |-> x, y |-> y])
            IN newDayIndex \in 0 .. (Len(DAY_LABELS) - 1) =>
                  /\ result.called
                  /\ result.map = updateSchedulePosition(schedulesMap, tableId, index,
                                                         dayAt(newDayIndex), timeDelta).map

\* C15: the snap step of a movement frame rounds the raw offset to the nearest
\* whole number of cells with a tie going away from zero: 83 snaps to 80, and
\* -40 snaps to -80, 40 to 80, and -15 to -30 on the Y axis.
C15_SnapTiesAwayFromZero ==
    frame.dragging =>
        /\ snap(frame.raw.x, CellSizeWIDTH)
              = RoundHalfAway(frame.raw.x, CellSizeWIDTH) * CellSizeWIDTH
        /\ snap(frame.raw.y, CellSizeHEIGHT)
              = RoundHalfAway(frame.raw.y, CellSizeHEIGHT) * CellSizeHEIGHT

\* the bounds of the offset named by the claim, from the rects of the frame
ClaimMinX == frame.containerNodeRect.left - frame.draggingNodeRect.left + 120 + 1

ClaimMaxX == frame.containerNodeRect.right - frame.draggingNodeRect.right

ClaimMinY == frame.containerNodeRect.top - frame.draggingNodeRect.top + 40 + 1

ClaimMaxY == frame.containerNodeRect.bottom - frame.draggingNodeRect.bottom

\* C16 as stated: on every movement frame the offset emitted lies within
\* [minX, maxX] and [minY, maxY], for all rects, a missing rect read as zeros.
C16_OffsetWithinBounds ==
    frame.dragging =>
        /\ ClaimMinX <= frame.transform.x /\ frame.transform.x <= ClaimMaxX
        /\ ClaimMinY <= frame.transform.y /\ frame.transform.y <= ClaimMaxY

\* C16 as amended: the offset emitted never exceeds maxX and maxY, and it is at
\* least minX (minY) whenever minX <= maxX (minY <= maxY); when the lower
\* bound exceeds the upper one, as with missing rects, it is the upper bound.
C16_OffsetBelowMax ==
    frame.dragging =>
        /\ frame.transform.x <= ClaimMaxX
        /\ frame.transform.y <= ClaimMaxY
        /\ IF ClaimMinX <= ClaimMaxX THEN ClaimMinX <= frame.transform.x
           ELSE frame.transform.x = ClaimMaxX
        /\ IF ClaimMinY <= ClaimMaxY THEN ClaimMinY <= frame.transform.y
           ELSE frame.transform.y = ClaimMaxY

\* the pointer is far past the right and bottom edges and both rects are
\* measured: the offset is held at the upper bounds
C16_Witness ==
    /\ frame.dragging
    /\ frame.containerNodeRect.measured /\ frame.draggingNodeRect.measured
    /\ frame.raw = [x |-> 500, y |-> 800]
    /\ frame.transform = [x |-> ClaimMaxX, y |-> ClaimMaxY]
    /\ ClaimMinX < ClaimMaxX

\* C19: with the container rect the 600x760 grid box and the element rect the
\* one rendered from its entry, the entry on the grid, a drop of any offset the
\* modifier emits leaves the entry with a day index in 0..5 and a range within
\* 1..24.
C19_DropStaysOnGrid ==
    [][(/\ frame.dragging
        /\ frame.containerNodeRect = gridRect
        /\ frame.draggingNodeRect = elementRect(schedulesMap[frame.tableId][frame.index + 1])
        /\ InGrid(schedulesMap[frame.tableId][frame.index + 1])
        /\ ~frame'.dragging)
       => InGrid(schedulesMap'[frame.tableId][frame.index + 1])]_vars

\* an entry dragged far past the bottom right corner was dropped and now sits
\* in the last column and the last rows
C19_Witness ==
    /\ ~frame.dragging
    /\ drag.path = "committed"
    /\ schedulesMap[SeedId][1].day = "Sat"
    /\ schedulesMap[SeedId][1].range = <<22, 23, 24>>

----------------------------------------------------------------------------
(* Properties of the search dialog *)

Elements(list) == {list[i] : i \in 1 .. Len(list)}

\* some stretch of text equals query once both are in lower case
ContainsIgnoringCase(text, query) ==
    \E from \in 1 .. (Len(text) + 1) :
        /\ from + Len(query) - 1 <= Len(text)
        /\ \A k \in 1 .. Len(query) :
               toLowerCaseChar(text[from + k - 1]) = toLowerCaseChar(query[k])

SessionsOf(lecture) == Elements(schedulesOf(lecture))

\* the lecture satisfies every dimension of the query; an empty set filters
\* nothing, a set with members accepts a lecture that matches one of them.
\* (What matching a credit value means is the matter of C12: here it is the
\* code's startsWith.)
Satisfies(lecture, q) ==
    /\ ContainsIgnoringCase(lecture.title, q.query) \/ ContainsIgnoringCase(lecture.id, q.query)
    /\ Elements(q.grades) # {} => lecture.grade \in Elements(q.grades)
    /\ Elements(q.majors) # {} => lecture.major \in Elements(q.majors)
    /\ q.credits # <<>> => startsWith(lecture.credits, q.credits)
    /\ Elements(q.days) # {} => \E s \in SessionsOf(lecture) : s.day \in Elements(q.days)
    /\ Elements(q.times) # {} =>
           \E s \in SessionsOf(lecture) : Elements(s.range) \cap Elements(q.times) # {}

\* the entries of list that satisfy q, in the order of list
RECURSIVE Kept(_, _)
Kept(list, q) ==
    IF list = <<>> THEN <<>>
    ELSE (IF Satisfies(Head(list), q) THEN <<Head(list)>> ELSE <<>>) \o Kept(Tail(list), q)

\* C11: the filtered catalog is exactly the entries of the catalog, in input
\* order, that satisfy every dimension of the query at once (text, grade, major,
\* credit, day, time), an empty set meaning no filter and a set with members
\* accepting a match of any member.
C11_FilterIsConjunction ==
    \A c \in Callers :
        filteredLectures(lectures[c], searchOptions[c]) = Kept(lectures[c], searchOptions[c])

\* grades [2, 3] over a catalog with grades 1 to 4: the grade-2 and grade-3
\* entries, three times over as fetchAllLectures delivers them
C11_Witness ==
    /\ searchOptions[TheDialog] = [InitialSearchOptions EXCEPT !.grades = <<2, 3>>]
    /\ lectures[TheDialog] = SmallMajors \o SmallMajors \o SmallMajors
    /\ filteredLectures(lectures[TheDialog], searchOptions[TheDialog])
          = <<m2, m3, m2, m3, m2, m3>>

\* C12: with a credit value set, the filtered catalog holds an entry only if
\* its credits equal that value exactly; with none set the credit dimension
\* filters nothing.
C12_CreditsExact ==
    \A c \in Callers :
        LET filtered == filteredLectures(lectures[c], searchOptions[c])
            q == searchOptions[c]
        IN /\ q.credits # <<>> =>
                  \A i \in 1 .. Len(filtered) : filtered[i].credits = q.credits
           /\ q.credits = <<>> => filtered = Kept(lectures[c], q)

\* what a user of dialog c can observe: the component keeps no error state
Observable(c) ==
    [lectures |-> lectures[c], page |-> page[c], searchOptions |-> searchOptions[c]]

\* results of six calls answered with empty catalogs
EmptyResults == [k \in 1 .. CallsOfFetchAll |-> <<>>]

RECURSIVE Flatten(_)
Flatten(lists) == IF lists = <<>> THEN <<>> ELSE Head(lists) \o Flatten(Tail(lists))

\* C13: when a catalog fetch fails, the dialog does not end in the observable
\* state of a fetch that succeeded with zero entries (an empty lecture list
\* and no error).
C13_FailureDistinct ==
    \A c \in Callers :
        pc[c] = "failed" =>
            Observable(c) # [Observable(c) EXCEPT !.lectures = Flatten(EmptyResults)]

\* C17: between two query changes the page never decreases as scroll signals
\* arrive, and every query change (a search option, or a new day or time
\* passed to the dialog) sets the page to 1; the visible rows are the first
\* page * 100 filtered entries.
C17_PageWindowGrows ==
    [][\A c \in Callers :
          /\ (searchOptions'[c] = searchOptions[c] /\ dialog'[c].op = "intersect")
                 => page'[c] >= page[c]
          /\ (searchOptions'[c] # searchOptions[c]
               \/ (dialog'[c] # dialog[c] /\ dialog'[c].op = "changeSearchOption"))
                 => page'[c] = 1]_vars

\* C20: the page of the dialog is at least 1 in every reachable state, and at
\* most max(1, lastPage), also while the filtered list is empty.
C20_PageAtLeastOne ==
    \A c \in Callers :
        /\ page[c] >= 1
        /\ page[c] <= MathMax(1, lastPageOf(filteredLectures(lectures[c], searchOptions[c])))

----------------------------------------------------------------------------
(* Properties of TableScheduleProvider *)

\* C21: no write is lost.  When write actions (addSchedules, removeSchedule,
\* updateSchedulePosition) are invoked one after the other on the same context
\* value, before the provider renders again, the resulting list reflects all
\* of them, and the list last passed to onSchedulesChange is the provider's
\* own list.
C21_NoWriteLost ==
    /\ tableProvider.schedules = tableProvider.reflected
    /\ tableProvider.called => tableProvider.notified = tableProvider.schedules

====
